---- MODULE Spec2Model ----
(***************************************************************************)
(* Model of the application bootstrap of biap-client-node-js: the startup  *)
(* sequence (whitelist parsing, database connection, listen) and the       *)
(* Express middleware chain every request travels through.                  *)
(*                                                                          *)
(* JavaScript strings that the code inspects character by character        *)
(* (the whitelist configuration, the Origin header, string leaves of a     *)
(* request body) are sequences of one-character strings.  Fixed texts the  *)
(* code only copies (header values, messages) are TLA+ strings.            *)
(***************************************************************************)
EXTENDS Integers, Sequences, FiniteSets, TLC

VARIABLES env, server, whitelist, reqs, arg, ret

vars == <<env, server, whitelist, reqs, arg, ret>>

(***************************************************************************)
(* Bounds                                                                   *)
(***************************************************************************)
MaxEnvLen == 3
MaxOriginLen == 1
MaxStrLen == 1
MaxNodes == 3

(***************************************************************************)
(* JavaScript values                                                        *)
(***************************************************************************)
\* the value `undefined` where a character string is expected
UNDEF == <<"undefined">>

EnvChars == {"a", ",", " "}
OriginChars == {"a", "A"}
StrChars == {"a", " ", "X"}

RECURSIVE StringsOver(_, _)
StringsOver(chars, n) ==
    IF n = 0 THEN {<<>>}
    ELSE LET shorter == StringsOver(chars, n - 1)
         IN  shorter \cup {Append(s, c) : s \in {t \in shorter : Len(t) = n - 1}, c \in chars}

\* JavaScript truthiness of a string-or-undefined value
Truthy(s) == s # UNDEF /\ s # <<>>

RECURSIVE TrimStart(_)
TrimStart(s) ==
    IF s # <<>> /\ Head(s) = " " THEN TrimStart(Tail(s)) ELSE s

RECURSIVE TrimEnd(_)
TrimEnd(s) ==
    IF s # <<>> /\ s[Len(s)] = " " THEN TrimEnd(SubSeq(s, 1, Len(s) - 1)) ELSE s

\* String.prototype.trim / validator.trim
Trim(s) == TrimEnd(TrimStart(s))

\* String.prototype.split(',')
RECURSIVE Split(_)
Split(s) ==
    IF \E i \in 1..Len(s) : s[i] = ","
    THEN LET i == CHOOSE j \in 1..Len(s) : s[j] = "," /\ \A k \in 1..(j - 1) : s[k] # ","
         IN  <<SubSeq(s, 1, i - 1)>> \o Split(SubSeq(s, i + 1, Len(s)))
    ELSE <<s>>

\* Array.prototype.includes
Includes(list, x) == \E i \in 1..Len(list) : list[i] = x

(***************************************************************************)
(* Startup                                                                  *)
(***************************************************************************)
EnvValues == {UNDEF} \cup StringsOver(EnvChars, MaxEnvLen)

\* process.env.CORS_WHITELIST_URLS.split(',').map(url => url.trim())
ParseWhitelist(value) ==
    LET parts == Split(value)
    IN  [i \in 1..Len(parts) |-> Trim(parts[i])]

(***************************************************************************)
(* JSON values of a request body.  A value is a record tagged by its        *)
(* JavaScript type; an object is a function from its own keys to values.    *)
(***************************************************************************)
Str(s) == [t |-> "string", s |-> s]
Num(n) == [t |-> "number", n |-> n]
Bool(b) == [t |-> "boolean", b |-> b]
Null == [t |-> "null"]
Undefined == [t |-> "undefined"]
Arr(a) == [t |-> "array", a |-> a]
Obj(o) == [t |-> "object", o |-> o]

\* the exception a call of a non-function raises
TypeError == [t |-> "TypeError"]

Keys == {"name", "hasOwnProperty", "$where"}

Leaves ==
    {Str(s) : s \in StringsOver(StrChars, MaxStrLen)}
        \cup {Num(7), Bool(TRUE), Null, Undefined}

\* ValuesOfSize(n): the values made of n nodes (leaves, arrays, objects);
\* SeqsOfSize(m): the element lists whose values have m nodes in total;
\* MapsOfSize(keys, m): the objects over a subset of keys, m nodes in total
RECURSIVE ValuesOfSize(_), SeqsOfSize(_), MapsOfSize(_, _)
ValuesOfSize(n) ==
    IF n = 0 THEN {}
    ELSE (IF n = 1 THEN Leaves ELSE {})
            \cup {Arr(a) : a \in SeqsOfSize(n - 1)}
            \cup {Obj(o) : o \in MapsOfSize(Keys, n - 1)}

SeqsOfSize(m) ==
    IF m = 0 THEN {<<>>}
    ELSE UNION {{<<v>> \o rest : v \in ValuesOfSize(k), rest \in SeqsOfSize(m - k)} : k \in 1..m}

MapsOfSize(keys, m) ==
    IF keys = {} THEN (IF m = 0 THEN {<<>>} ELSE {})
    ELSE LET key == CHOOSE k \in keys : TRUE
             without == MapsOfSize(keys \ {key}, m)
             with == UNION {{[k \in DOMAIN rest \cup {key} |-> IF k = key THEN v ELSE rest[k]] :
                                v \in ValuesOfSize(j), rest \in MapsOfSize(keys \ {key}, m - j)} :
                            j \in 1..m}
         IN  without \cup with

\* the values of at most `nodes` nodes
JsonValues(nodes) == UNION {ValuesOfSize(n) : n \in 1..nodes}

(***************************************************************************)
(* Custom sanitize functions                                                *)
(***************************************************************************)
\* validator.isURL(value, { require_protocol: true }): no string over StrChars
\* carries a protocol scheme
IsURL(s) == FALSE

CustomEscape(s) == IF IsURL(s) THEN s ELSE s

\* purify.sanitize: "X" stands for a fragment of executable markup, which
\* DOMPurify removes; every other character is kept
Purify(s) == SelectSeq(s, LAMBDA c : c # "X")

\* input.hasOwnProperty(key): the property lookup finds the object's own
\* "hasOwnProperty" before the inherited method; a JSON value is no function
HasOwnPropertyThrows(o) == "hasOwnProperty" \in DOMAIN o

RECURSIVE sanitize(_)
sanitize(input) ==
    IF input.t = "string" THEN Str(Purify(CustomEscape(Trim(input.s))))
    ELSE IF input.t = "array" THEN
        LET mapped == [i \in 1..Len(input.a) |-> sanitize(input.a[i])]
        IN  IF \E i \in 1..Len(input.a) : mapped[i] = TypeError
            THEN TypeError
            ELSE Arr(mapped)
    ELSE IF input.t = "object" THEN
        IF DOMAIN input.o = {} THEN input
        ELSE IF HasOwnPropertyThrows(input.o) THEN TypeError
        ELSE LET assigned == [k \in DOMAIN input.o |-> sanitize(input.o[k])]
             IN  IF \E k \in DOMAIN input.o : assigned[k] = TypeError
                 THEN TypeError
                 ELSE Obj(assigned)
    ELSE input

\* What a call of sanitize leaves behind in its argument.  The object branch
\* assigns into the object it was given, so the caller's object changes; an
\* exception leaves the keys visited so far assigned.  for...in visits own
\* string keys in insertion order, which a JSON value here does not record:
\* every order is a possible run.  A run is [r |-> returned value or
\* TypeError, m |-> the argument afterwards].
RECURSIVE sanitizeRuns(_), mapRuns(_), forInRuns(_, _)
\* a sanitize that builds a new object and never assigns into its argument
sanitizeRunsCopying(input) == {[r |-> sanitize(input), m |-> input]}

sanitizeRuns(input) ==
    IF input.t = "array" THEN
        {[r |-> IF x.ok THEN Arr(x.r) ELSE TypeError, m |-> Arr(x.m)] : x \in mapRuns(input.a)}
    ELSE IF input.t = "object" THEN
        IF DOMAIN input.o = {} THEN {[r |-> input, m |-> input]}
        ELSE IF HasOwnPropertyThrows(input.o) THEN {[r |-> TypeError, m |-> input]}
        ELSE {[r |-> IF x.ok THEN Obj(x.o) ELSE TypeError, m |-> Obj(x.o)] :
                 x \in forInRuns(input.o, DOMAIN input.o)}
    ELSE {[r |-> sanitize(input), m |-> input]}

\* input.map(sanitize): elements in index order; the array itself is not
\* assigned to, the objects it holds are
mapRuns(a) ==
    IF a = <<>> THEN {[ok |-> TRUE, r |-> <<>>, m |-> <<>>]}
    ELSE UNION {
            IF x.r = TypeError
            THEN {[ok |-> FALSE, r |-> <<>>, m |-> <<x.m>> \o Tail(a)]}
            ELSE {[ok |-> y.ok, r |-> <<x.r>> \o y.r, m |-> <<x.m>> \o y.m] :
                     y \in mapRuns(Tail(a))}
            : x \in sanitizeRuns(Head(a))}

\* for (let key in input) input[key] = sanitize(input[key]), over the keys
\* still to visit
forInRuns(o, todo) ==
    IF todo = {} THEN {[ok |-> TRUE, o |-> o]}
    ELSE UNION {UNION {
            IF x.r = TypeError
            THEN {[ok |-> FALSE, o |-> [o EXCEPT ![key] = x.m]]}
            ELSE forInRuns([o EXCEPT ![key] = x.r], todo \ {key})
            : x \in sanitizeRuns(o[key])} : key \in todo}

\* the specification of the sanitizer taken alone: arg.input is the value
\* passed, arg.now the state of that same value as the caller sees it
NotCalled == [t |-> "not called"]

InitSanitize ==
    /\ env = UNDEF
    /\ server = "boot"
    /\ whitelist = <<>>
    /\ reqs = <<>>
    /\ \E v \in JsonValues(MaxNodes) : arg = [input |-> v, now |-> v]
    /\ ret = NotCalled

CallSanitize ==
    /\ ret = NotCalled
    /\ \E run \in sanitizeRuns(arg.input) :
        /\ ret' = run.r
        /\ arg' = [arg EXCEPT !.now = run.m]
    /\ UNCHANGED <<env, server, whitelist, reqs>>

NextSanitize == CallSanitize

SpecSanitize == InitSanitize /\ [][NextSanitize]_vars

(***************************************************************************)
(* Requests and responses                                                   *)
(***************************************************************************)
\* the requests in flight: the handlers share nothing but the whitelist
Reqs == {"r1"}

Origins == {UNDEF} \cup StringsOver(OriginChars, MaxOriginLen)

Methods == {"GET", "POST", "PUT", "DELETE", "PATCH", "OPTIONS"}

\* a path is the sequence of its segments
Paths == {<<"clientApis", "v1", "search">>, <<"clientApis", "v1", "unknown">>, <<"unknown">>}

\* the version a client declares, as the version validator judges it
Versions == {"supported", "unsupported"}

Bodies ==
    { Obj(<<>>),
      Obj("name" :> Str(<<" ", "X", "a">>)),
      Obj("hasOwnProperty" :> Num(7)),
      Obj("$where" :> Str(<<"a">>)) }

NoErr == "(no error)"
NoHeader == "(not set)"
NoHandler == "(none)"

\* a fresh ServerResponse: statusCode defaults to 200, nothing is set or sent;
\* sentAt is the number of handlers entered when the response was sent
NewResponse ==
    [ status |-> 200, ended |-> FALSE, sentAt |-> 0, type |-> "none", text |-> "", origin |-> UNDEF,
      acao |-> UNDEF, acac |-> NoHeader, acam |-> NoHeader, acah |-> NoHeader,
      xss |-> NoHeader ]

Idle ==
    [ origin |-> UNDEF, method |-> "GET", path |-> <<>>, version |-> "supported",
      raw |-> Undefined, body |-> Undefined, idx |-> 0, err |-> NoErr, hist |-> <<>>,
      handler |-> NoHandler, res |-> NewResponse ]

(***************************************************************************)
(* The middleware stack, in the order of the app.use calls                  *)
(***************************************************************************)
Layer(name, mount, handlesError, method) ==
    [name |-> name, mount |-> mount, handlesError |-> handlesError, method |-> method]

\* the stack with the router registered without the version validator in
\* front of it
StackWithoutVersionValidator ==
    << Layer("cookieParser", <<>>, FALSE, "ALL"),
       Layer("jsonParser", <<>>, FALSE, "ALL"),
       Layer("urlencodedParser", <<>>, FALSE, "ALL"),
       Layer("logger", <<>>, FALSE, "ALL"),
       Layer("cors", <<>>, FALSE, "ALL"),
       Layer("corsWhitelist", <<>>, FALSE, "ALL"),
       Layer("corsHeaders", <<>>, FALSE, "ALL"),
       Layer("blockOrigin", <<>>, FALSE, "ALL"),
       Layer("router", <<"clientApis">>, FALSE, "ALL"),
       Layer("xssFilter", <<>>, FALSE, "ALL"),
       Layer("sanitizeBody", <<>>, FALSE, "ALL"),
       Layer("mongoSanitize", <<>>, FALSE, "ALL"),
       Layer("logErrors", <<>>, TRUE, "ALL"),
       Layer("notFound", <<>>, FALSE, "GET") >>

Stack ==
    << Layer("cookieParser", <<>>, FALSE, "ALL"),
       Layer("jsonParser", <<>>, FALSE, "ALL"),
       Layer("urlencodedParser", <<>>, FALSE, "ALL"),
       Layer("logger", <<>>, FALSE, "ALL"),
       Layer("cors", <<>>, FALSE, "ALL"),
       Layer("corsWhitelist", <<>>, FALSE, "ALL"),
       Layer("corsHeaders", <<>>, FALSE, "ALL"),
       Layer("blockOrigin", <<>>, FALSE, "ALL"),
       Layer("appVersionValidator", <<"clientApis">>, FALSE, "ALL"),
       Layer("router", <<"clientApis">>, FALSE, "ALL"),
       Layer("xssFilter", <<>>, FALSE, "ALL"),
       Layer("sanitizeBody", <<>>, FALSE, "ALL"),
       Layer("mongoSanitize", <<>>, FALSE, "ALL"),
       Layer("logErrors", <<>>, TRUE, "ALL"),
       Layer("notFound", <<>>, FALSE, "GET") >>

IsPrefix(p, s) == Len(p) <= Len(s) /\ SubSeq(s, 1, Len(p)) = p

\* Express's choice of a layer: the mount path is a prefix of the request
\* path, a pending error goes to error handlers only, a route's method fits
Matches(layer, q) ==
    /\ IsPrefix(layer.mount, q.path)
    /\ layer.handlesError <=> (q.err # NoErr)
    /\ layer.method \in {"ALL", q.method}

\* the first layer after position i that takes the request; past the end of
\* the stack Express's final handler answers
NextIdx(q, i) ==
    IF \E j \in (i + 1)..Len(Stack) : Matches(Stack[j], q)
    THEN CHOOSE j \in (i + 1)..Len(Stack) :
            /\ Matches(Stack[j], q)
            /\ \A k \in (i + 1)..(j - 1) : ~Matches(Stack[k], q)
    ELSE Len(Stack) + 1

\* next()
Pass(q) == [q EXCEPT !.idx = NextIdx(q, q.idx)]

\* next(err), and an exception thrown by a handler
Fail(q, e) ==
    LET failed == [q EXCEPT !.err = e]
    IN  [failed EXCEPT !.idx = NextIdx(failed, q.idx)]

\* a handler that sends the response and returns without calling next():
\* the chain stops there
Halt == Len(Stack) + 2

Respond(q, res) ==
    [q EXCEPT !.res = [res EXCEPT !.ended = TRUE, !.sentAt = Len(q.hist)], !.idx = Halt]

\* the handler named `name` has been entered
Ran(q, name) == [q EXCEPT !.hist = Append(@, name)]

At(r, name) ==
    /\ server = "listening"
    /\ reqs[r].idx \in 1..Len(Stack)
    /\ Stack[reqs[r].idx].name = name

\* the handlers keeping the body in one module-level variable instead of on
\* the request: a step of one request overwrites the body of the others
BecomesWithSharedBody(r, q) ==
    /\ reqs' = [x \in DOMAIN reqs |-> IF x = r THEN q ELSE [reqs[x] EXCEPT !.body = q.body]]
    /\ UNCHANGED <<env, server, whitelist, arg, ret>>

Becomes(r, q) ==
    /\ reqs' = [reqs EXCEPT ![r] = q]
    /\ UNCHANGED <<env, server, whitelist, arg, ret>>

(***************************************************************************)
(* The handlers                                                             *)
(***************************************************************************)
\* cors(options) with preflightContinue set: the preflight is answered and
\* passed on as well
CorsMiddlewarePreflightContinue(q, callbackErr, methods, allowedHeaders) ==
    IF callbackErr # NoErr THEN Fail(q, callbackErr)
    ELSE LET credentialed == [q.res EXCEPT !.acac = "true"]
         IN  IF q.method = "OPTIONS"
             THEN Pass([q EXCEPT !.res = [credentialed EXCEPT !.acam = methods,
                                                              !.status = 204,
                                                              !.ended = TRUE,
                                                              !.sentAt = Len(q.hist)]])
             ELSE Pass([q EXCEPT !.res = credentialed])

\* cors(options): the origin callback's verdict decides between next(err)
\* and the headers.  With origin true the request's origin is reflected; a
\* header whose value is falsy is not set.  A preflight is answered here
\* (preflightContinue false) with optionsSuccessStatus and no body.
CorsMiddleware(q, callbackErr, methods, allowedHeaders) ==
    IF callbackErr # NoErr THEN Fail(q, callbackErr)
    ELSE LET reflected == IF Truthy(q.origin)
                          THEN [q.res EXCEPT !.acao = q.origin]
                          ELSE q.res
             credentialed == [reflected EXCEPT !.acac = "true"]
         IN  IF q.method = "OPTIONS"
             THEN Respond(q, [credentialed EXCEPT !.acam = methods,
                                                  !.acah = allowedHeaders,
                                                  !.status = 204])
             ELSE Pass([q EXCEPT !.res = credentialed])

\* the cors package's default for `methods`
CorsDefaultMethods == "GET,HEAD,PUT,PATCH,POST,DELETE"

\* cors({ origin: true, credentials: true }); without allowedHeaders the
\* request's Access-Control-Request-Headers are reflected, and a request
\* here carries none
CompulsoryCors(q) == CorsMiddleware(q, NoErr, CorsDefaultMethods, NoHeader)

\* corsOptions.origin without its first test: a request without an origin is
\* looked up in the whitelist like any other
corsOptionsOriginNoAbsentTest(origin, list) ==
    IF Includes(list, origin) THEN NoErr
    ELSE "Not allowed by CORS"

\* corsOptions.origin
corsOptionsOrigin(origin, list) ==
    IF ~Truthy(origin) THEN NoErr
    ELSE IF Includes(list, origin) THEN NoErr
    ELSE "Not allowed by CORS"

\* cors(corsOptions)
EnhancedCors(q, list) ==
    CorsMiddleware(q, corsOptionsOrigin(q.origin, list),
                   "GET,POST,PUT,DELETE,OPTIONS,PATCH",
                   "Origin,X-Requested-With,Content-Type,Accept,Authorization,Access-Control-Allow-Origin,Access-Control-Allow-Headers,Access-Control-Allow-Methods")

\* Additional CORS headers middleware
AdditionalCorsHeaders(q) ==
    LET set == [q.res EXCEPT
                    !.acao = IF Truthy(q.origin) THEN q.origin ELSE <<"*">>,
                    !.acac = "true",
                    !.acam = "GET,HEAD,PUT,PATCH,POST,DELETE,OPTIONS",
                    !.acah = "Origin, X-Requested-With, Content-Type, Accept, Authorization"]
    IN  IF q.method = "OPTIONS"
        THEN Respond(q, [set EXCEPT !.status = 204])
        ELSE Pass([q EXCEPT !.res = set])

\* the blocking test without `origin &&`: a request without an origin is
\* looked up in the whitelist
IsBlockedOriginNoPresenceTest(origin, list) == ~Includes(list, origin)

\* origin && !whitelist.includes(origin)
IsBlockedOrigin(origin, list) == Truthy(origin) /\ ~Includes(list, origin)

\* Security middleware to block disallowed origins
BlockDisallowedOrigin(q, list) ==
    IF IsBlockedOrigin(q.origin, list)
    THEN Respond(q, [q.res EXCEPT !.status = 403,
                                  !.type = "json",
                                  !.text = "CORS policy does not allow access from this origin.",
                                  !.origin = q.origin])
    ELSE Pass(q)

\* the statuses a version error may be answered with
VersionErrorStatuses == {400, 426}

\* appVersionValidator(): a request of a supported version goes on, any
\* other is answered with a client error
VersionValidator(q, status) ==
    IF q.version = "supported"
    THEN Pass(q)
    ELSE Respond(q, [q.res EXCEPT !.status = status, !.type = "json", !.text = "VersionError"])

(***************************************************************************)
(* Routes                                                                   *)
(***************************************************************************)
Route(method, pattern, auth, handler) ==
    [method |-> method, pattern |-> pattern, auth |-> auth, handler |-> handler]

\* the search routes with the commented-out registration of line 12 in
\* force: authentication() in front of the search controller as well
SearchRoutesAllAuthenticated ==
    << Route("POST", <<"v1", "search">>, TRUE, "search"),
       Route("GET", <<"v1", "on_search">>, FALSE, "onSearch"),
       Route("GET", <<"v1", "getFilterParams">>, TRUE, "getFilterParams") >>

\* discovery/v1/search.routes.js
SearchRoutes ==
    << Route("POST", <<"v1", "search">>, FALSE, "search"),
       Route("GET", <<"v1", "on_search">>, FALSE, "onSearch"),
       Route("GET", <<"v1", "getFilterParams">>, TRUE, "getFilterParams") >>

\* order/v2/cart/v2/cart.routes.js
CartRoutes ==
    << Route("POST", <<"v2", "cart", ":userId">>, FALSE, "addItem"),
       Route("GET", <<"v2", "cart", ":userId">>, FALSE, "getCartItem"),
       Route("GET", <<"v2", "cart", ":userId", "all">>, FALSE, "getAllCartItem"),
       Route("DELETE", <<"v2", "cart", ":userId", ":id", "clear">>, FALSE, "clearCart"),
       Route("DELETE", <<"v2", "cart", ":userId", ":itemId">>, FALSE, "removeItem"),
       Route("PUT", <<"v2", "cart", ":userId", ":itemId">>, FALSE, "updateItem") >>

\* utils/router.js mounts the route files
Routes == SearchRoutes \o CartRoutes

IsParam(segment) == segment \in {":userId", ":id", ":itemId"}

RouteMatches(route, method, path) ==
    /\ route.method = method
    /\ Len(route.pattern) = Len(path)
    /\ \A i \in 1..Len(path) : IsParam(route.pattern[i]) \/ route.pattern[i] = path[i]

\* the router sees the path below its mount point; the first route that
\* matches takes the request, an authentication stage first where the route
\* names one; with no match the router calls next()
Router(q, authenticated) ==
    LET path == SubSeq(q.path, 2, Len(q.path))
        hits == {i \in 1..Len(Routes) : RouteMatches(Routes[i], q.method, path)}
    IN  IF hits = {} THEN Pass(q)
        ELSE LET route == Routes[CHOOSE i \in hits : \A j \in hits : i <= j]
                 entered == IF route.auth THEN Ran(q, "authentication") ELSE q
             IN  IF route.auth /\ ~authenticated
                 THEN Respond(entered, [q.res EXCEPT !.status = 401,
                                                     !.type = "json",
                                                     !.text = "Unauthenticated"])
                 ELSE Respond([Ran(entered, route.handler) EXCEPT !.handler = route.handler],
                              [q.res EXCEPT !.type = "handler"])

\* helmet.xssFilter()
XssFilter(q) == Pass([q EXCEPT !.res = [@ EXCEPT !.xss = "X-XSS-Protection"]])

\* req.body = sanitize(req.body); next()
SanitizeBody(q, run) ==
    IF run.r = TypeError
    THEN Fail([q EXCEPT !.body = run.m], "TypeError")
    ELSE Pass([q EXCEPT !.body = run.r])

\* express-mongo-sanitize removes the keys that begin with '$' or hold a '.'
IsMongoKey(k) == k \in {"$where"}

RECURSIVE MongoStrip(_)
MongoStrip(v) ==
    IF v.t = "array" THEN Arr([i \in 1..Len(v.a) |-> MongoStrip(v.a[i])])
    ELSE IF v.t = "object"
    THEN Obj([k \in {x \in DOMAIN v.o : ~IsMongoKey(x)} |-> MongoStrip(v.o[k])])
    ELSE v

MongoSanitize(q) == Pass([q EXCEPT !.body = MongoStrip(q.body)])

\* utils/logErrors.js: a pending error is turned into a JSON error response
LogErrors(q) ==
    Respond(q, [q.res EXCEPT !.status = 500, !.type = "json", !.text = q.err])

\* app.get("*")
NotFound(q) ==
    Respond(q, [q.res EXCEPT !.status = 404, !.type = "text", !.text = "API NOT FOUND"])

\* Express's final handler, when the stack is exhausted: 404 "Cannot METHOD path"
FinalHandler(q) ==
    Respond(q, [q.res EXCEPT !.status = IF q.err = NoErr THEN 404 ELSE 500,
                             !.type = "html",
                             !.text = IF q.err = NoErr THEN "Cannot METHOD path" ELSE q.err])

(***************************************************************************)
(* Startup                                                                  *)
(***************************************************************************)
Init ==
    /\ env \in EnvValues
    /\ server = "boot"
    /\ whitelist = <<>>
    /\ reqs = [r \in Reqs |-> Idle]
    /\ arg = NotCalled
    /\ ret = NotCalled

\* the module body without the test of CORS_WHITELIST_URLS
LoadWhitelistUnchecked ==
    /\ server = "boot"
    /\ server' = "connecting"
    /\ whitelist' = IF Truthy(env) THEN ParseWhitelist(env) ELSE <<>>
    /\ UNCHANGED <<env, reqs, arg, ret>>

\* the module body up to dbConnect(): a missing CORS_WHITELIST_URLS throws
LoadWhitelist ==
    /\ server = "boot"
    /\ IF ~Truthy(env)
       THEN server' = "crashed" /\ UNCHANGED whitelist
       ELSE server' = "connecting" /\ whitelist' = ParseWhitelist(env)
    /\ UNCHANGED <<env, reqs, arg, ret>>

\* dbConnect().then(...): app.listen
DbConnected ==
    /\ server = "connecting"
    /\ server' = "listening"
    /\ UNCHANGED <<env, whitelist, reqs, arg, ret>>

\* dbConnect().catch(...)
DbFailed ==
    /\ server = "connecting"
    /\ server' = "dbError"
    /\ UNCHANGED <<env, whitelist, reqs, arg, ret>>

(***************************************************************************)
(* One request through the stack                                            *)
(***************************************************************************)
Receive(r) ==
    /\ server = "listening"
    /\ reqs[r].idx = 0
    /\ \E o \in Origins, m \in Methods, p \in Paths, v \in Versions, b \in Bodies :
        Becomes(r, Pass([Idle EXCEPT !.origin = o, !.method = m, !.path = p,
                                     !.version = v, !.raw = b]))

CookieParserStep(r) ==
    /\ At(r, "cookieParser")
    /\ Becomes(r, Pass(Ran(reqs[r], "cookieParser")))

\* bodyParser.json: req.body is the parsed body
JsonParserStep(r) ==
    /\ At(r, "jsonParser")
    /\ Becomes(r, Pass([Ran(reqs[r], "jsonParser") EXCEPT !.body = reqs[r].raw]))

UrlencodedParserStep(r) ==
    /\ At(r, "urlencodedParser")
    /\ Becomes(r, Pass(Ran(reqs[r], "urlencodedParser")))

LoggerStep(r) ==
    /\ At(r, "logger")
    /\ Becomes(r, Pass(Ran(reqs[r], "logger")))

CompulsoryCorsStep(r) ==
    /\ At(r, "cors")
    /\ Becomes(r, CompulsoryCors(Ran(reqs[r], "cors")))

\* cors(corsOptions) with an origin callback that remembers the origins it
\* has seen by pushing them onto the whitelist
EnhancedCorsStepRemembering(r) ==
    /\ At(r, "corsWhitelist")
    /\ reqs' = [reqs EXCEPT ![r] = EnhancedCors(Ran(reqs[r], "corsWhitelist"), whitelist)]
    /\ whitelist' = IF Includes(whitelist, reqs[r].origin)
                    THEN whitelist
                    ELSE Append(whitelist, reqs[r].origin)
    /\ UNCHANGED <<env, server, arg, ret>>

EnhancedCorsStep(r) ==
    /\ At(r, "corsWhitelist")
    /\ Becomes(r, EnhancedCors(Ran(reqs[r], "corsWhitelist"), whitelist))

AdditionalCorsHeadersStep(r) ==
    /\ At(r, "corsHeaders")
    /\ Becomes(r, AdditionalCorsHeaders(Ran(reqs[r], "corsHeaders")))

BlockDisallowedOriginStep(r) ==
    /\ At(r, "blockOrigin")
    /\ Becomes(r, BlockDisallowedOrigin(Ran(reqs[r], "blockOrigin"), whitelist))

VersionValidatorStep(r) ==
    /\ At(r, "appVersionValidator")
    /\ \E status \in VersionErrorStatuses :
        Becomes(r, VersionValidator(Ran(reqs[r], "appVersionValidator"), status))

RouterStep(r) ==
    /\ At(r, "router")
    /\ \E authenticated \in BOOLEAN :
        Becomes(r, Router(Ran(reqs[r], "router"), authenticated))

XssFilterStep(r) ==
    /\ At(r, "xssFilter")
    /\ Becomes(r, XssFilter(Ran(reqs[r], "xssFilter")))

SanitizeBodyStep(r) ==
    /\ At(r, "sanitizeBody")
    /\ \E run \in sanitizeRuns(reqs[r].body) :
        Becomes(r, SanitizeBody(Ran(reqs[r], "sanitizeBody"), run))

MongoSanitizeStep(r) ==
    /\ At(r, "mongoSanitize")
    /\ Becomes(r, MongoSanitize(Ran(reqs[r], "mongoSanitize")))

LogErrorsStep(r) ==
    /\ At(r, "logErrors")
    /\ Becomes(r, LogErrors(Ran(reqs[r], "logErrors")))

NotFoundStep(r) ==
    /\ At(r, "notFound")
    /\ Becomes(r, NotFound(Ran(reqs[r], "notFound")))

FinalHandlerStep(r) ==
    /\ server = "listening"
    /\ reqs[r].idx = Len(Stack) + 1
    /\ Becomes(r, FinalHandler(Ran(reqs[r], "finalhandler")))

\* the response has been sent: the request and response objects are dropped
Finish(r) ==
    /\ reqs[r].idx = Halt
    /\ Becomes(r, Idle)

Next ==
    \/ LoadWhitelist
    \/ DbConnected
    \/ DbFailed
    \/ \E r \in Reqs :
        \/ Receive(r)
        \/ CookieParserStep(r)
        \/ JsonParserStep(r)
        \/ UrlencodedParserStep(r)
        \/ LoggerStep(r)
        \/ CompulsoryCorsStep(r)
        \/ EnhancedCorsStep(r)
        \/ AdditionalCorsHeadersStep(r)
        \/ BlockDisallowedOriginStep(r)
        \/ VersionValidatorStep(r)
        \/ RouterStep(r)
        \/ XssFilterStep(r)
        \/ SanitizeBodyStep(r)
        \/ MongoSanitizeStep(r)
        \/ LogErrorsStep(r)
        \/ NotFoundStep(r)
        \/ FinalHandlerStep(r)
        \/ Finish(r)

Spec == Init /\ [][Next]_vars

(***************************************************************************)
(* The two origin checks taken alone                                        *)
(***************************************************************************)
InitGuard ==
    /\ env \in EnvValues
    /\ Truthy(env)
    /\ server = "boot"
    /\ whitelist = ParseWhitelist(env)
    /\ reqs = <<>>
    /\ \E o \in Origins : arg = [origin |-> o]
    /\ ret = NotCalled

CallGuard ==
    /\ ret = NotCalled
    /\ ret' = [callback |-> corsOptionsOrigin(arg.origin, whitelist),
               blocked |-> IsBlockedOrigin(arg.origin, whitelist)]
    /\ UNCHANGED <<env, server, whitelist, reqs, arg>>

NextGuard == CallGuard

SpecGuard == InitGuard /\ [][NextGuard]_vars

(***************************************************************************)
(* Properties                                                               *)
(***************************************************************************)
Last(h) == h[Len(h)]

Entered(q, name) == \E i \in 1..Len(q.hist) : q.hist[i] = name

\* every entry of `first` in the history comes before every entry of `then`,
\* and there is one
RanBefore(q, first, then) ==
    /\ Entered(q, first)
    /\ \A i, j \in 1..Len(q.hist) : q.hist[i] = first /\ q.hist[j] = then => i < j

Sent(q) == q.res.ended

\* the handler that sent the response
SentBy(q) == q.hist[q.res.sentAt]

\* C1: every request whose Origin header is present and not a member of the
\* whitelist is answered, for every path and every method but OPTIONS, with
\* status 403 and the JSON body { error: 'CORS policy does not allow access
\* from this origin.', origin: <the rejected origin> }.
C1_BlockedOriginGets403 ==
    \A r \in Reqs :
        LET q == reqs[r]
        IN  (Sent(q) /\ q.origin # UNDEF /\ ~Includes(whitelist, q.origin)
                /\ q.method # "OPTIONS")
            => /\ q.res.status = 403
               /\ q.res.type = "json"
               /\ q.res.text = "CORS policy does not allow access from this origin."
               /\ q.res.origin = q.origin

\* C2: for every request handed to the route dispatcher, the body sanitizer
\* and then the Mongo pattern strip have already run, both before the
\* version gate.
C2_SanitizedBeforeDispatch ==
    \A r \in Reqs :
        LET q == reqs[r]
        IN  Entered(q, "router")
            => /\ RanBefore(q, "sanitizeBody", "mongoSanitize")
               /\ RanBefore(q, "mongoSanitize", "appVersionValidator")
               /\ RanBefore(q, "appVersionValidator", "router")

\* C3: every OPTIONS request, whatever its origin, is answered with status
\* 204, an empty body and Access-Control-Allow-Methods equal to
\* 'GET,HEAD,PUT,PATCH,POST,DELETE,OPTIONS'.
C3_PreflightResponse ==
    \A r \in Reqs :
        LET q == reqs[r]
        IN  (Sent(q) /\ q.method = "OPTIONS")
            => /\ q.res.status = 204
               /\ q.res.type = "none"
               /\ q.res.acam = "GET,HEAD,PUT,PATCH,POST,DELETE,OPTIONS"

\* C4 as stated: the origin guard allows an absent origin, and a present
\* origin exactly when it is a member of the whitelist, for every origin
\* string.
C4_AllowedIffMember ==
    ret # NotCalled =>
        LET member == \E i \in 1..Len(whitelist) : whitelist[i] = arg.origin
            allowed == arg.origin = UNDEF \/ member
        IN  /\ (ret.callback = NoErr) <=> allowed
            /\ ~ret.blocked <=> allowed

\* C4 as amended: the origin guard allows an absent origin and the empty
\* origin string, and a non-empty origin exactly when it is a member of the
\* whitelist.
C4_AllowedIffMemberOrEmpty ==
    ret # NotCalled =>
        LET member == \E i \in 1..Len(whitelist) : whitelist[i] = arg.origin
            allowed == arg.origin = UNDEF \/ Len(arg.origin) = 0 \/ member
        IN  /\ (ret.callback = NoErr) <=> allowed
            /\ ~ret.blocked <=> allowed

\* both guards have decided on an empty Origin header the whitelist lacks
C4_Witness ==
    /\ ret # NotCalled
    /\ arg.origin = <<>>
    /\ \A i \in 1..Len(whitelist) : whitelist[i] # <<>>
    /\ ret.callback = NoErr
    /\ ~ret.blocked

GuardStages == {"cors", "corsWhitelist", "corsHeaders", "blockOrigin", "appVersionValidator"}

\* C5: once a guard stage has sent the response (204, 403 or the version
\* gate's rejection), no later stage runs for the request: no handler is
\* entered after it, the body is not sanitized, and the route dispatcher
\* and the route handlers are never reached.
C5_GuardEndIsFinal ==
    \A r \in Reqs :
        LET q == reqs[r]
        IN  (Sent(q) /\ SentBy(q) \in GuardStages)
            => /\ Len(q.hist) = q.res.sentAt
               /\ q.idx = Halt
               /\ ~Entered(q, "sanitizeBody")
               /\ ~Entered(q, "router")
               /\ q.handler = NoHandler
               /\ q.body = q.raw

\* a preflight has been answered with 204 by a guard stage
C5_Witness ==
    \E r \in Reqs :
        /\ Sent(reqs[r])
        /\ SentBy(reqs[r]) \in GuardStages
        /\ reqs[r].res.status = 204

RECURSIVE SameShape(_, _)
SameShape(v, w) ==
    IF v.t = "string" THEN w.t = "string"
    ELSE IF v.t = "array" THEN
        /\ w.t = "array"
        /\ Len(w.a) = Len(v.a)
        /\ \A i \in 1..Len(v.a) : SameShape(v.a[i], w.a[i])
    ELSE IF v.t = "object" THEN
        /\ w.t = "object"
        /\ DOMAIN w.o = DOMAIN v.o
        /\ \A k \in DOMAIN v.o : SameShape(v.o[k], w.o[k])
    ELSE w = v

\* C6: for every acyclic JSON value v, sanitize(v) has the shape of v: an
\* object keeps its key set, an array its length and order, and every leaf
\* that is no string is returned unchanged.
C6_ShapePreserved == ret # NotCalled => SameShape(arg.input, ret)

\* C7: with the whitelist configuration missing, startup fails and the
\* server never listens; whenever the server listens, the whitelist has been
\* parsed from the configuration and is not empty.
C7_NoListenWithoutWhitelist ==
    /\ env = UNDEF => server \in {"boot", "crashed"}
    /\ server = "listening" =>
        /\ env # UNDEF
        /\ Len(whitelist) >= 1
        /\ Len(whitelist) = Len(Split(env))
        /\ \A i \in 1..Len(whitelist) : whitelist[i] = Trim(Split(env)[i])

\* startup has failed on a missing whitelist
C7_Witness == env = UNDEF /\ server = "crashed"

\* C8: every request handed to the route dispatcher has passed the version
\* gate first, and a request the gate rejects is answered with a client
\* error and never reaches the dispatcher or a route handler.
C8_VersionGateBeforeDispatch ==
    \A r \in Reqs :
        LET q == reqs[r]
        IN  /\ (Entered(q, "router") \/ q.handler # NoHandler)
                => /\ RanBefore(q, "appVersionValidator", "router")
                   /\ q.version = "supported"
            /\ (Entered(q, "appVersionValidator") /\ q.version # "supported")
                => /\ Sent(q)
                   /\ q.res.status \in 400..499
                   /\ ~Entered(q, "router")
                   /\ q.handler = NoHandler

\* a request has been dispatched to the search handler
C8_Witness ==
    \E r \in Reqs :
        /\ reqs[r].handler = "search"
        /\ Entered(reqs[r], "appVersionValidator")

\* C9: every response carries Access-Control-Allow-Origin equal to the
\* request's origin, or '*' when the origin is absent, and
\* Access-Control-Allow-Credentials equal to 'true', whether or not the
\* origin is whitelisted.  (An empty Origin header is left aside: the
\* statement is about origins that are absent or name an origin.)
C9_CorsHeadersOnEveryResponse ==
    \A r \in Reqs :
        LET q == reqs[r]
        IN  (Sent(q) /\ q.origin # <<>>)
            => /\ q.res.acao = (IF q.origin = UNDEF THEN <<"*">> ELSE q.origin)
               /\ q.res.acac = "true"

\* C10: every request that passes all guards and matches no route is
\* answered with status 404 and the text 'API NOT FOUND', for each of GET,
\* POST, PUT, DELETE and PATCH.
C10_FallbackForEveryMethod ==
    \A r \in Reqs :
        LET q == reqs[r]
        IN  (Sent(q) /\ SentBy(q) \in {"notFound", "finalhandler"}
                /\ q.method \in {"GET", "POST", "PUT", "DELETE", "PATCH"})
            => /\ q.res.status = 404
               /\ q.res.type = "text"
               /\ q.res.text = "API NOT FOUND"

\* the terminal states of the request state machine; a request that has left
\* the guards (to the router, a route handler or the fallbacks) counts as
\* Dispatch
Terminal(q) ==
    IF SentBy(q) \in {"cors", "corsWhitelist", "corsHeaders"} /\ q.res.status = 204
        THEN "Respond:204"
    ELSE IF SentBy(q) = "blockOrigin" /\ q.res.status = 403 THEN "Reject:403"
    ELSE IF SentBy(q) = "appVersionValidator" /\ q.res.status \in 400..499 THEN "Reject:4xx"
    ELSE IF q.err = NoErr /\ (Entered(q, "router") \/ SentBy(q) \in {"notFound", "finalhandler"})
        THEN "Dispatch"
    ELSE "other"

\* C11: every request ends in exactly one terminal state, one of
\* Respond:204, Reject:403, Reject:4xx or Dispatch, and receives one
\* response: a request whose response has been sent is in one of the four,
\* and nothing runs for it after the response.
C11_FourTerminalStates ==
    \A r \in Reqs :
        LET q == reqs[r]
        IN  Sent(q)
            => /\ Terminal(q) \in {"Respond:204", "Reject:403", "Reject:4xx", "Dispatch"}
               /\ Len(q.hist) = q.res.sentAt
               /\ q.idx = Halt

(***************************************************************************)
(* Two requests in flight at once.  The handlers are synchronous, so the    *)
(* requests interleave handler by handler, in any order.                    *)
(***************************************************************************)
PairReqs == {"r1", "r2"}

Input(origin, method, path, version, raw) ==
    [origin |-> origin, method |-> method, path |-> path, version |-> version, raw |-> raw]

\* one request for each way through the stack
PairInputs ==
    { Input(<<"A">>, "OPTIONS", <<"unknown">>, "supported", Obj(<<>>)),
      Input(<<"A">>, "GET", <<"unknown">>, "supported", Obj(<<>>)),
      Input(<<"a">>, "POST", <<"clientApis", "v1", "search">>, "supported",
            Obj("name" :> Str(<<" ", "X", "a">>))),
      Input(UNDEF, "GET", <<"clientApis", "v1", "search">>, "unsupported", Obj(<<>>)),
      Input(UNDEF, "GET", <<"clientApis", "v1", "unknown">>, "supported",
            Obj(("name" :> Str(<<"a", " ">>)) @@ ("$where" :> Str(<<"X">>)))),
      Input(<<"a">>, "GET", <<"unknown">>, "supported", Obj("hasOwnProperty" :> Num(7))),
      Input(<<>>, "PUT", <<"unknown">>, "supported", Obj("$where" :> Str(<<"a">>))) }

\* the request as the first layer of the stack receives it
Arrived(in) ==
    Pass([Idle EXCEPT !.origin = in.origin, !.method = in.method, !.path = in.path,
                      !.version = in.version, !.raw = in.raw])

InitPair ==
    /\ env = <<"a">>
    /\ server = "listening"
    /\ whitelist = ParseWhitelist(env)
    /\ reqs = [r \in PairReqs |-> Idle]
    /\ arg = NotCalled
    /\ ret = NotCalled

ReceivePair(r) ==
    /\ server = "listening"
    /\ reqs[r].idx = 0
    /\ \E in \in PairInputs : Becomes(r, Arrived(in))

NextPair ==
    \E r \in PairReqs :
        \/ ReceivePair(r)
        \/ CookieParserStep(r)
        \/ JsonParserStep(r)
        \/ UrlencodedParserStep(r)
        \/ LoggerStep(r)
        \/ CompulsoryCorsStep(r)
        \/ EnhancedCorsStep(r)
        \/ AdditionalCorsHeadersStep(r)
        \/ BlockDisallowedOriginStep(r)
        \/ VersionValidatorStep(r)
        \/ RouterStep(r)
        \/ XssFilterStep(r)
        \/ SanitizeBodyStep(r)
        \/ MongoSanitizeStep(r)
        \/ LogErrorsStep(r)
        \/ NotFoundStep(r)
        \/ FinalHandlerStep(r)
        \/ Finish(r)

SpecPair == InitPair /\ [][NextPair]_vars

\* what the next handler makes of a request that is alone on the server
StepsAlone(q, list) ==
    IF q.idx = Len(Stack) + 1 THEN {FinalHandler(Ran(q, "finalhandler"))}
    ELSE LET name == Stack[q.idx].name
             in == Ran(q, name)
         IN  CASE name = "jsonParser" -> {Pass([in EXCEPT !.body = q.raw])}
               [] name = "cors" -> {CompulsoryCors(in)}
               [] name = "corsWhitelist" -> {EnhancedCors(in, list)}
               [] name = "corsHeaders" -> {AdditionalCorsHeaders(in)}
               [] name = "blockOrigin" -> {BlockDisallowedOrigin(in, list)}
               [] name = "appVersionValidator" ->
                    {VersionValidator(in, status) : status \in VersionErrorStatuses}
               [] name = "router" -> {Router(in, authenticated) : authenticated \in BOOLEAN}
               [] name = "xssFilter" -> {XssFilter(in)}
               [] name = "sanitizeBody" -> {SanitizeBody(in, run) : run \in sanitizeRuns(q.body)}
               [] name = "mongoSanitize" -> {MongoSanitize(in)}
               [] name = "logErrors" -> {LogErrors(in)}
               [] name = "notFound" -> {NotFound(in)}
               [] OTHER -> {Pass(in)}

\* the results a request can end with when it is alone
RECURSIVE ResultsAlone(_, _)
ResultsAlone(q, list) ==
    IF q.idx = Halt THEN {q}
    ELSE UNION {ResultsAlone(n, list) : n \in StepsAlone(q, list)}

InputOf(q) == Input(q.origin, q.method, q.path, q.version, q.raw)

\* C12: under any interleaving of the requests in flight, the outcome and
\* the sanitized body of each request are those the request has when it runs
\* alone: they depend on its own origin, method, path, body and version and
\* on the whitelist only.
C12_IndependentOfInterleaving ==
    \A r \in DOMAIN reqs :
        reqs[r].idx = Halt => reqs[r] \in ResultsAlone(Arrived(InputOf(reqs[r])), whitelist)

\* one request has been answered after its body was sanitized while the
\* other, with another body, is between two handlers
C12_Witness ==
    \E r, o \in DOMAIN reqs :
        /\ r # o
        /\ reqs[r].idx = Halt
        /\ Entered(reqs[r], "sanitizeBody")
        /\ reqs[r].body # reqs[r].raw
        /\ reqs[o].idx \in 2..Len(Stack)
        /\ reqs[o].raw # reqs[r].raw

\* C13: the whitelist is read-only after startup: no step of the server that
\* is listening, for any request, changes it.
C13_WhitelistReadOnly == [][server = "listening" => whitelist' = whitelist]_vars

\* a request has been through both whitelist lookups and has been answered
C13_Witness ==
    \E r \in Reqs :
        /\ Sent(reqs[r])
        /\ Entered(reqs[r], "corsWhitelist")
        /\ Entered(reqs[r], "blockOrigin")
        /\ Truthy(reqs[r].origin)
        /\ whitelist = ParseWhitelist(env)

\* C14: the origin guard runs before the preflight check: an OPTIONS request
\* whose origin is present and not whitelisted ends in Reject:403, never in
\* Respond:204.
C14_BlockedPreflightGets403 ==
    \A r \in Reqs :
        LET q == reqs[r]
        IN  (Sent(q) /\ q.method = "OPTIONS" /\ q.origin # UNDEF /\ q.origin # <<>>
                /\ ~Includes(whitelist, q.origin))
            => /\ q.res.status = 403
               /\ q.res.status # 204
               /\ SentBy(q) = "blockOrigin"

\* C15 as stated: sanitize applied to a non-null, non-array object leaves
\* its argument unchanged: after the call the input object still holds its
\* original values at every key.
C15_ArgumentUnchanged ==
    (ret # NotCalled /\ arg.input.t = "object") => arg.now = arg.input

\* C15 as amended: sanitize applied to a non-null, non-array object assigns
\* into its argument and returns that same object: the key set of the
\* argument never changes, and when the call returns, the argument holds the
\* sanitized value at every key and equals the value returned.
C15_ArgumentSanitizedInPlace ==
    (ret # NotCalled /\ arg.input.t = "object")
        => /\ arg.now.t = "object"
           /\ DOMAIN arg.now.o = DOMAIN arg.input.o
           /\ ret # TypeError
                => /\ arg.now = ret
                   /\ \A k \in DOMAIN arg.input.o : arg.now.o[k] = sanitize(arg.input.o[k])

\* sanitize has returned from an object holding a string it had to change:
\* the caller's object no longer holds the original value
C15_Witness ==
    /\ ret # NotCalled
    /\ ret # TypeError
    /\ arg.input.t = "object"
    /\ \E k \in DOMAIN arg.input.o :
        /\ arg.input.o[k].t = "string"
        /\ arg.now.o[k] # arg.input.o[k]

\* C16: the two origin checks agree: for every origin, absent or present,
\* and every whitelist, the cors origin callback reports an error exactly
\* when the blocking middleware would answer 403.
C16_ChecksAgree ==
    ret # NotCalled => ((ret.callback # NoErr) <=> ret.blocked)

\* both checks have refused an origin that is not in the whitelist
C16_Witness ==
    /\ ret # NotCalled
    /\ arg.origin # UNDEF
    /\ ret.callback = "Not allowed by CORS"
    /\ ret.blocked

\* a request path for every pattern of the two route files, and one that no
\* route matches
RoutePaths ==
    { <<"clientApis", "v1", "search">>,
      <<"clientApis", "v1", "on_search">>,
      <<"clientApis", "v1", "getFilterParams">>,
      <<"clientApis", "v2", "cart", "u1">>,
      <<"clientApis", "v2", "cart", "u1", "all">>,
      <<"clientApis", "v2", "cart", "u1", "i1", "clear">>,
      <<"clientApis", "v2", "cart", "u1", "i1">>,
      <<"clientApis", "v2", "unknown">> }

\* every method on every route path, from no origin, a whitelisted one and
\* one outside the whitelist
RouteInputs ==
    { Input(o, m, p, v, Obj(<<>>)) :
        o \in {UNDEF, <<"a">>, <<"A">>}, m \in Methods, p \in RoutePaths, v \in Versions }

InitRoutes ==
    /\ env = <<"a">>
    /\ server = "listening"
    /\ whitelist = ParseWhitelist(env)
    /\ reqs = [r \in Reqs |-> Idle]
    /\ arg = NotCalled
    /\ ret = NotCalled

ReceiveRoute(r) ==
    /\ server = "listening"
    /\ reqs[r].idx = 0
    /\ \E in \in RouteInputs : Becomes(r, Arrived(in))

NextRoutes ==
    \E r \in Reqs :
        \/ ReceiveRoute(r)
        \/ CookieParserStep(r)
        \/ JsonParserStep(r)
        \/ UrlencodedParserStep(r)
        \/ LoggerStep(r)
        \/ CompulsoryCorsStep(r)
        \/ EnhancedCorsStep(r)
        \/ AdditionalCorsHeadersStep(r)
        \/ BlockDisallowedOriginStep(r)
        \/ VersionValidatorStep(r)
        \/ RouterStep(r)
        \/ XssFilterStep(r)
        \/ SanitizeBodyStep(r)
        \/ MongoSanitizeStep(r)
        \/ LogErrorsStep(r)
        \/ NotFoundStep(r)
        \/ FinalHandlerStep(r)
        \/ Finish(r)

SpecRoutes == InitRoutes /\ [][NextRoutes]_vars

\* the controllers the claim names as reached without authentication
OpenHandlers ==
    {"search", "onSearch", "addItem", "getCartItem", "getAllCartItem", "clearCart",
     "removeItem", "updateItem"}

\* C17: among the search and cart routes the authentication middleware
\* precedes exactly one handler: getFilterParams runs only after
\* authentication has passed control to it, and the search, on_search and
\* six cart handlers are reached with no authentication stage before them.
C17_AuthenticationOnlyBeforeGetFilterParams ==
    \A r \in Reqs :
        LET q == reqs[r]
        IN  /\ Entered(q, "getFilterParams")
                => /\ RanBefore(q, "authentication", "getFilterParams")
                   /\ q.handler = "getFilterParams"
            /\ \A h \in OpenHandlers : Entered(q, h) => ~Entered(q, "authentication")
            /\ (Entered(q, "authentication") /\ q.handler # NoHandler)
                => q.handler = "getFilterParams"
            /\ q.handler # NoHandler
                => q.handler \in OpenHandlers \cup {"getFilterParams"}

\* getFilterParams has answered a request that went through authentication
C17_Witness ==
    \E r \in Reqs :
        LET q == reqs[r]
        IN  /\ Sent(q)
            /\ q.handler = "getFilterParams"
            /\ RanBefore(q, "authentication", "getFilterParams")

====
